---- MODULE Spec2Model ----
(***************************************************************************)
(* Model of the Taxonomy component (hierarchical multi-select):            *)
(*   src/src/components/Taxonomy/Taxonomy.tsx   ("Taxonomy.tsx")           *)
(*   src/unnamed/part_001                       ("part_001", the variant   *)
(*                                               rendered by TreeStructure)*)
(*                                                                         *)
(* A label is a sequence of characters, a path a sequence of labels, an    *)
(* item a record [label, path, depth, children]; a leaf has children <<>>. *)
(*                                                                         *)
(* Four specifications share the module:                                   *)
(*   SpecFilter  filterTreeByPredicate, one loop iteration per step        *)
(*   SpecToggle  setSelected applied to drawn lists and paths              *)
(*   SpecBatched setSelected calls with the re-render as a separate step   *)
(*   Spec        the mounted component: user events and resynchronization  *)
(***************************************************************************)
EXTENDS Integers, Sequences, FiniteSets, TLC

\* ------------------------------------------------------------------ bounds
MaxNodes == 4        \* nodes of the trees drawn for filterTreeByPredicate
MaxExternal == 2     \* length of the lists the caller supplies as selected
MaxMaxUsages == 2    \* largest options.maxUsages drawn
MaxToggleLen == 2    \* length of the lists setSelected is first called on
MaxCalls == 2        \* setSelected calls made in a row

\* ------------------------------------------------------------- sequences
Range(s) == {s[k] : k \in DOMAIN s}

RECURSIVE Concat(_)
Concat(ss) == IF ss = <<>> THEN <<>> ELSE Head(ss) \o Concat(Tail(ss))

\* Array.prototype.unshift
unshift(arr, x) == <<x>> \o arr

\* --------------------------------------------------------- TaxonomyItem
\* type TaxonomyItem = { label, path, depth, children? }
TaxonomyItem(label, path, depth, children) ==
  [label |-> label, path |-> path, depth |-> depth, children |-> children]

LabelChars == <<"A", "B", "C", "D", "E", "F", "G", "H">>

\* the label given to the k-th node (pre-order) of a drawn tree
NodeLabel(k) == <<LabelChars[k]>>

\* depth sequences of the well-formed pre-order sequences of n nodes: the
\* first node is a root and a node is at most one level below its predecessor
DepthSeqs(n) ==
  {ds \in [1..n -> 0..(n - 1)] :
     /\ n > 0 => ds[1] = 0
     /\ \A k \in 1..(n - 1) : ds[k + 1] <= ds[k] + 1}

\* the forest whose pre-order depth sequence is ds[lo..hi], its roots at
\* depth dep under the path ppath: depth = number of ancestors, path =
\* the ancestors' labels followed by the node's own
RECURSIVE BuildForest(_, _, _, _, _)
BuildForest(ds, lo, hi, dep, ppath) ==
  LET R == {k \in lo..hi : ds[k] = dep}
      n == Cardinality(R)
      idx == [j \in 1..n |-> CHOOSE k \in R : Cardinality({m \in R : m < k}) = j - 1]
      last(j) == IF j = n THEN hi ELSE idx[j + 1] - 1
  IN  [j \in 1..n |->
         LET k == idx[j]
             path == Append(ppath, NodeLabel(k))
         IN  TaxonomyItem(NodeLabel(k), path, dep,
                          BuildForest(ds, k + 1, last(j), dep + 1, path))]

\* the spec's scenario tree  A > [A1, A2 > [A2a]]
LA == <<"A">>
LA1 == <<"A", "1">>
LA2 == <<"A", "2">>
LA2a == <<"A", "2", "a">>
ExampleTree ==
  << TaxonomyItem(LA, <<LA>>, 0,
       << TaxonomyItem(LA1, <<LA, LA1>>, 1, <<>>),
          TaxonomyItem(LA2, <<LA, LA2>>, 1,
            << TaxonomyItem(LA2a, <<LA, LA2, LA2a>>, 2, <<>>) >>) >>) >>

\* the trees filterTreeByPredicate is run on
FilterTrees ==
  {ExampleTree} \cup
  UNION {{BuildForest(ds, 1, n, 0, <<>>) : ds \in DepthSeqs(n)} : n \in 0..MaxNodes}

\* ------------------------------------------------------------- flatten
\* a walk that emits a node after its children
visitItemPostOrder(item) ==
  LET RECURSIVE walk(_)
      walk(n) == Concat([j \in DOMAIN n.children |-> walk(n.children[j])]) \o <<n>>
  IN  walk(item)

\* Taxonomy: const flatten = useMemo(...)  (pre-order walk)
RECURSIVE visitItem(_)
visitItem(item) ==
  <<item>> \o Concat([j \in DOMAIN item.children |-> visitItem(item.children[j])])

flatten(items) == Concat([j \in DOMAIN items |-> visitItem(items[j])])

\* ------------------------------------------------ filterTreeByPredicate
\* The loop state is [i, d, childs, roots, pc, result]:
\*   i       elements of the flat sequence not yet scanned (the scan is backward)
\*   d       the closing depth, -1 when idle
\*   childs  sparse array: DOMAIN childs are the indices that hold a list
\*   roots   the forest built so far
\*   pc      "loop" | "done" (returned) | "error" (TypeError raised)
\*   result  the returned forest once pc = "done"
FilterInit(flat) ==
  [i |-> Len(flat), d |-> -1, childs |-> <<>>, roots |-> <<>>,
   pc |-> "loop", result |-> <<>>]

\* childs[k] = v on a sparse array
SetAt(childs, k, v) == [j \in (DOMAIN childs) \cup {k} |-> IF j = k THEN v ELSE childs[j]]

\* a closing branch that attaches the pending children without childs[d] = []
FilterCloseNoReset(st, item) ==
  LET d == st.d
      adjusted == [item EXCEPT !.children = IF d \in DOMAIN st.childs THEN st.childs[d] ELSE <<>>]
  IN  IF d # 0
      THEN IF (d - 1) \in DOMAIN st.childs
           THEN [st EXCEPT !.i = st.i - 1,
                           !.childs = [st.childs EXCEPT ![d - 1] = <<adjusted>> \o @],
                           !.d = d - 1]
           ELSE [st EXCEPT !.i = st.i - 1, !.pc = "error"]
      ELSE [st EXCEPT !.i = st.i - 1,
                      !.roots = <<adjusted>> \o st.roots,
                      !.d = d - 1]

\* the iteration's closing branch: item.depth === d
FilterClose(st, item) ==
  LET d == st.d
      adjusted == [item EXCEPT !.children = IF d \in DOMAIN st.childs THEN st.childs[d] ELSE <<>>]
      childs1 == SetAt(st.childs, d, <<>>)
  IN  IF d # 0
      THEN IF (d - 1) \in DOMAIN childs1
           THEN [st EXCEPT !.i = st.i - 1,
                           !.childs = SetAt(childs1, d - 1, unshift(childs1[d - 1], adjusted)),
                           !.d = d - 1]
           \* childs[d - 1] is undefined: .unshift raises a TypeError
           ELSE [st EXCEPT !.i = st.i - 1, !.childs = childs1, !.pc = "error"]
      ELSE [st EXCEPT !.i = st.i - 1,
                      !.childs = childs1,
                      !.roots = unshift(st.roots, adjusted),
                      !.d = d - 1]

\* the iteration's matching branch: predicate(item)
FilterMatch(st, item) ==
  LET adjusted == [item EXCEPT !.children = <<>>]
  IN  IF item.depth = 0
      THEN [st EXCEPT !.i = st.i - 1, !.roots = unshift(st.roots, adjusted)]
      ELSE LET d == item.depth - 1
               childs1 == IF d \in DOMAIN st.childs THEN st.childs ELSE SetAt(st.childs, d, <<>>)
           IN  [st EXCEPT !.i = st.i - 1,
                          !.d = d,
                          !.childs = SetAt(childs1, d, unshift(childs1[d], adjusted))]

\* one evaluation of the loop condition and, if it holds, the loop body;
\* accepted is the set of items the predicate is true of
FilterStep(st, flat, accepted) ==
  IF st.i = 0
  THEN [st EXCEPT !.pc = "done", !.result = st.roots]
  ELSE LET item == flat[st.i]
       IN  IF item.depth = st.d THEN FilterClose(st, item)
           ELSE IF item \in accepted THEN FilterMatch(st, item)
           ELSE [st EXCEPT !.i = st.i - 1]

RECURSIVE FilterRun(_, _, _)
FilterRun(st, flat, accepted) ==
  IF st.pc # "loop" THEN st ELSE FilterRun(FilterStep(st, flat, accepted), flat, accepted)

\* the whole call: its final loop state
filterTreeByPredicate(flat, accepted) == FilterRun(FilterInit(flat), flat, accepted)

\* ------------------------------------------------------- path utilities
\* utils/utilities isArraysEqual: same length and equal element by element
isArraysEqual(a, b) == Len(a) = Len(b) /\ \A k \in 1..Len(a) : a[k] = b[k]

\* isSubArray: item is a child of parent (parent is a leading subset of item)
isSubArray(item, parent) ==
  IF Len(item) <= Len(parent) THEN FALSE
  ELSE \A k \in 1..Len(parent) : item[k] = parent[k]

\* ------------------------------------------------------- selection model
\* setSelected that cascades: removing a path also removes the paths below it
setSelectedCascading(selected, path, value) ==
  IF value THEN Append(selected, path)
  ELSE SelectSeq(selected, LAMBDA current : ~(current = path \/ (Len(current) > Len(path) /\ SubSeq(current, 1, Len(path)) = path)))

\* setSelected that removes one entry equal to path, the first, and not all
setSelectedRemoveFirst(selected, path, value) ==
  IF value THEN Append(selected, path)
  ELSE IF \E k \in DOMAIN selected : selected[k] = path
       THEN LET f == CHOOSE k \in DOMAIN selected :
                       selected[k] = path /\ \A m \in 1..(k - 1) : selected[m] # path
            IN  SubSeq(selected, 1, f - 1) \o SubSeq(selected, f + 1, Len(selected))
       ELSE selected

\* Taxonomy: setSelected(path, value) computes newSelected from selected
setSelected(selected, path, value) ==
  IF value THEN Append(selected, path)
  ELSE SelectSeq(selected, LAMBDA current : ~isArraysEqual(current, path))

\* setSelected that hands onChange the list it was called on
setSelected_onChangeStale(selected, path, value) == <<selected>>

\* Taxonomy: setSelected: the lists its one call passes to onChange, in order
\* (onChange && onChange(null, newSelected), with the onChange the props require)
setSelected_onChange(selected, path, value) == <<setSelected(selected, path, value)>>

\* Taxonomy: optionsWithMaxUsages.maxUsagesReached (maxUsages absent is 0)
maxUsagesReached(options, selected) ==
  IF options.maxUsages # 0 THEN Len(selected) >= options.maxUsages ELSE FALSE

\* dependencies of the memo that leave the selected list out
MemoDepsWithoutSelected(options, selected) == <<options, options.maxUsages>>

\* Taxonomy: the dependency list of optionsWithMaxUsages,
\* [options, options.maxUsages, options.maxUsages ? selected : 0]
MemoDeps(options, selected) ==
  <<options, options.maxUsages, IF options.maxUsages # 0 THEN selected ELSE 0>>

\* Taxonomy: const optionsWithMaxUsages = useMemo(...) on a render where the
\* list is selected and was before on the render that filled memo. React
\* compares the dependencies by reference; a new array with the same entries
\* recomputes the same record, so comparing by value gives the same memo.
optionsWithMaxUsages(memo, options, before, selected) ==
  IF MemoDeps(options, selected) # MemoDeps(options, before)
  THEN [leafsOnly |-> options.leafsOnly, maxUsages |-> options.maxUsages,
        maxUsagesReached |-> maxUsagesReached(options, selected)]
  ELSE memo

\* checked that tests isSubArray where the code tests isArraysEqual
checkedBySubArray(selected, path) == \E k \in DOMAIN selected : Len(selected[k]) > Len(path) /\ SubSeq(selected[k], 1, Len(path)) = path

\* Item: const checked = selected.some(current => isArraysEqual(current, path))
checked(selected, path) == \E k \in DOMAIN selected : isArraysEqual(selected[k], path)

\* Item: const isChildSelected = selected.some(current => isSubArray(current, path))
isChildSelected(selected, path) == \E k \in DOMAIN selected : isSubArray(selected[k], path)

\* setIndeterminate without its checked branch
indeterminateUnguarded(selected, path) == \E k \in DOMAIN selected : Len(selected[k]) > Len(path) /\ SubSeq(selected[k], 1, Len(path)) = path

\* Item: setIndeterminate, the value given to el.indeterminate
indeterminate(selected, path) ==
  IF checked(selected, path) THEN FALSE ELSE isChildSelected(selected, path)

\* Item: const hasChilds = Boolean(item.children?.length)
hasChilds(item) == Len(item.children) > 0

\* Item: the checkbox's disabled attribute. Taxonomy.tsx: disabled =
\* onlyLeafsAllowed || limitReached; part_001 renders the input without one.
disabled(component, item, selected, options) ==
  IF component = "Taxonomy.tsx"
  THEN LET onlyLeafsAllowed == options.leafsOnly /\ hasChilds(item)
           limitReached == maxUsagesReached(options, selected) /\ ~checked(selected, item.path)
       IN  onlyLeafsAllowed \/ limitReached
  ELSE FALSE

\* Item: onChange={e => setSelected(item.path, e.currentTarget.checked)}; the
\* box is controlled (checked={checked}), so a click reports the opposite
Item_onChange(selected, item) == setSelected(selected, item.path, ~checked(selected, item.path))

\* SelectedList: onClick={() => setSelected(path, false)}
SelectedList_onClick(selected, path) == setSelected(selected, path, FALSE)

\* a resynchronization that keeps the local entries the external list lacks
resynchronizedMerging(selected, externalSelected) ==
  externalSelected \o SelectSeq(selected, LAMBDA current : \A k \in DOMAIN externalSelected : externalSelected[k] # current)

\* Taxonomy: useEffect(() => setInternalSelected(externalSelected), [externalSelected])
resynchronized(selected, externalSelected) == externalSelected

\* --------------------------------------------------------------- Dropdown
\* String.prototype.toLocaleLowerCase on the characters used here
LowerChar(c) ==
  CASE c = "A" -> "a" [] c = "B" -> "b" [] c = "C" -> "c" [] OTHER -> c
toLocaleLowerCase(s) == [k \in DOMAIN s |-> LowerChar(s[k])]

\* String.prototype.includes
includes(s, sub) ==
  \E k \in 0..(Len(s) - Len(sub)) : SubSeq(s, k + 1, k + Len(sub)) = sub

\* Dropdown: const predicate = item => item.label.toLocaleLowerCase().includes(search)
predicate(item, search) == includes(toLocaleLowerCase(item.label), search)

\* the tree given to the mounted component:  A > [B > [C1]]
IA == <<"A">>
IB == <<"B">>
IC1 == <<"C", "1">>
Items ==
  << TaxonomyItem(IA, <<IA>>, 0,
       << TaxonomyItem(IB, <<IA, IB>>, 1,
            << TaxonomyItem(IC1, <<IA, IB, IC1>>, 2, <<>>) >>) >>) >>

ItemPaths == {n.path : n \in Range(flatten(Items))}

\* what the user can type into the search box
SearchInputs == {<<>>, <<"B">>, <<"1">>, <<"a">>}

\* Dropdown (Taxonomy.tsx): the call filterTreeByPredicate(flatten, predicate)
SearchCall(search) ==
  LET fl == flatten(Items)
  IN  filterTreeByPredicate(fl, {n \in Range(fl) : predicate(n, search)})

\* Dropdown: rendering raises (only Taxonomy.tsx calls filterTreeByPredicate)
RenderThrows(component, search) ==
  component = "Taxonomy.tsx" /\ search # <<>> /\ SearchCall(search).pc = "error"

\* Dropdown: const list = search ? <filtered> : items
\*   Taxonomy.tsx  filterTreeByPredicate(flatten, predicate)
\*   part_001      flatten.filter(predicate)
list(component, search) ==
  IF search = <<>> THEN Items
  ELSE IF component = "Taxonomy.tsx" THEN SearchCall(search).result
  ELSE SelectSeq(flatten(Items), LAMBDA n : predicate(n, search))

\* the items that get a checkbox. Taxonomy.tsx: every Item of the list and,
\* once opened, of its children. part_001: TreeStructure's rows, the list's
\* entries alone when flatten={search !== ""}, else the whole tree.
RenderedItems(component, search) ==
  IF component = "part_001" /\ search # <<>>
  THEN Range(list(component, search))
  ELSE Range(flatten(list(component, search)))

\* ------------------------------------------------------------ variables
VARIABLES
  items,            \* Taxonomy props: items, the tree flatten is computed from
  flat,             \* filterTreeByPredicate: parameter flatten
  accepted,         \* filterTreeByPredicate: the items predicate is true of
  fst,              \* filterTreeByPredicate: the loop state
  tset,             \* setSelected calls: the current list
  thist,            \* setSelected calls: the calls made, [path, value, before]
  tcalls,           \* setSelected calls: the lists passed to onChange so far
  contextValue,     \* setSelected calls: the selected the memoized setSelected closes over
  component,        \* which Taxonomy is mounted: "Taxonomy.tsx" | "part_001"
  options,          \* Taxonomy props: options [leafsOnly, maxUsages]
  externalSelected, \* Taxonomy props: selected
  selected,         \* Taxonomy: useState(externalSelected)
  search,           \* Dropdown: useState("")
  isOpen,           \* Taxonomy: useState(false)
  crashed,          \* rendering raised and the component is unmounted
  reported,         \* <<>> or <<the list of the latest onChange call>>
  optionsContext    \* Taxonomy: the memoized optionsWithMaxUsages given to the nodes

fvars == <<items, flat, accepted, fst>>
tvars == <<tset, thist, tcalls, contextValue>>
cvars == <<component, options, externalSelected, selected, search, isOpen, crashed, reported,
           optionsContext>>
vars == <<items, flat, accepted, fst, tset, thist, tcalls, contextValue,
          component, options, externalSelected, selected, search, isOpen, crashed, reported,
          optionsContext>>

\* Taxonomy: optionsWithMaxUsages as the first render computes it
FirstOptionsContext ==
  [leafsOnly |-> options.leafsOnly, maxUsages |-> options.maxUsages,
   maxUsagesReached |-> maxUsagesReached(options, selected)]

\* the values of the variables a specification does not use
FilterIdle == items = <<>> /\ flat = <<>> /\ accepted = {} /\ fst = FilterInit(<<>>)
ToggleIdle == tset = <<>> /\ thist = <<>> /\ tcalls = <<>> /\ contextValue = <<>>
ComponentIdle ==
  /\ component = "Taxonomy.tsx"
  /\ options = [leafsOnly |-> FALSE, maxUsages |-> 0]
  /\ externalSelected = <<>>
  /\ selected = <<>>
  /\ search = <<>>
  /\ isOpen = FALSE
  /\ crashed = FALSE
  /\ reported = <<>>
  /\ optionsContext = FirstOptionsContext

\* --------------------------------------------------------- SpecFilter
FilterCallInit ==
  /\ items \in FilterTrees
  /\ flat = flatten(items)
  /\ accepted \in SUBSET Range(flat)
  /\ fst = FilterInit(flat)

FilterIteration ==
  /\ fst.pc = "loop"
  /\ fst' = FilterStep(fst, flat, accepted)
  /\ UNCHANGED <<items, flat, accepted>>
  /\ UNCHANGED <<tvars, cvars>>

\* the caller, having rendered Taxonomy with no items, supplies the tree: the
\* memo recomputes flatten and the Dropdown calls filterTreeByPredicate again
ItemsChange(tree) ==
  /\ items = <<>> /\ fst.pc = "done"
  /\ tree # <<>>
  /\ items' = tree
  /\ flat' = flatten(tree)
  /\ \E acc \in SUBSET Range(flat') : accepted' = acc
  /\ fst' = FilterInit(flat')
  /\ UNCHANGED <<tvars, cvars>>

InitFilter == FilterCallInit /\ ToggleIdle /\ ComponentIdle
NextFilter ==
  \/ FilterIteration
  \/ \E tree \in FilterTrees : ItemsChange(tree)
SpecFilter == InitFilter /\ [][NextFilter]_vars

\* --------------------------------------------------------- SpecToggle
\* the lists without two equal paths, of at most n paths of S
DupFreeLists(S, n) ==
  UNION {{l \in [1..k -> S] : \A i, j \in 1..k : i # j => l[i] # l[j]} : k \in 0..n}

TogglePaths == {n.path : n \in Range(flatten(ExampleTree))}

InitToggle ==
  /\ tset \in DupFreeLists(TogglePaths, MaxToggleLen)
  /\ thist = <<>>
  /\ tcalls = <<>>
  /\ contextValue = tset
  /\ FilterIdle /\ ComponentIdle

\* the body of setSelected(path, value): it reads the selected of the render
\* that built it, sets the state and reports the new list
setSelectedBody(path, value) ==
  /\ Len(thist) < MaxCalls
  /\ tset' = setSelected(contextValue, path, value)
  /\ thist' = Append(thist, [path |-> path, value |-> value, before |-> tset])
  /\ tcalls' = tcalls \o setSelected_onChange(contextValue, path, value)
  /\ UNCHANGED <<fvars, cvars>>

\* one call setSelected(path, value), and the render the state change causes:
\* useMemo([selected]) rebuilds contextValue from the new list
SetSelectedCall(path, value) ==
  /\ setSelectedBody(path, value)
  /\ contextValue' = tset'

NextToggle == \E path \in TogglePaths, value \in BOOLEAN : SetSelectedCall(path, value)
SpecToggle == InitToggle /\ [][NextToggle]_vars

\* -------------------------------------------------------- SpecBatched
\* the same calls when the render is a step of its own: an event can be
\* handled while the setSelected of the previous render is still in place
SetSelectedBeforeRender(path, value) ==
  /\ setSelectedBody(path, value)
  /\ UNCHANGED contextValue

\* Taxonomy re-renders with the new state: useMemo([selected]) rebuilds
\* contextValue and its setSelected
Render ==
  /\ contextValue # tset
  /\ contextValue' = tset
  /\ UNCHANGED <<tset, thist, tcalls>>
  /\ UNCHANGED <<fvars, cvars>>

NextBatched ==
  \/ \E path \in TogglePaths, value \in BOOLEAN : SetSelectedBeforeRender(path, value)
  \/ Render
SpecBatched == InitToggle /\ [][NextBatched]_vars

\* ---------------------------------------------------------------- Spec
Components == {"Taxonomy.tsx", "part_001"}

Init ==
  /\ component \in Components
  /\ options \in [leafsOnly : BOOLEAN, maxUsages : 0..MaxMaxUsages]
  /\ externalSelected \in DupFreeLists(ItemPaths, MaxExternal)
  /\ selected = externalSelected
  /\ search = <<>>
  /\ isOpen = FALSE
  /\ crashed = FALSE
  /\ reported = <<>>
  /\ optionsContext = FirstOptionsContext
  /\ FilterIdle /\ ToggleIdle

\* the user changes the checkbox of a rendered item that is not disabled
ItemChange(item) ==
  /\ ~crashed /\ isOpen
  /\ item \in RenderedItems(component, search)
  /\ ~disabled(component, item, selected, options)
  /\ selected' = Item_onChange(selected, item)
  /\ reported' = <<selected'>>
  /\ optionsContext' = optionsWithMaxUsages(optionsContext, options, selected, selected')
  /\ UNCHANGED <<component, options, externalSelected, search, isOpen, crashed>>
  /\ UNCHANGED <<fvars, tvars>>

\* the user clicks the remove button of the k-th entry of the selected summary
SelectedListRemove(k) ==
  /\ ~crashed
  /\ k \in DOMAIN selected
  /\ selected' = SelectedList_onClick(selected, selected[k])
  /\ reported' = <<selected'>>
  /\ optionsContext' = optionsWithMaxUsages(optionsContext, options, selected, selected')
  /\ UNCHANGED <<component, options, externalSelected, search, isOpen, crashed>>
  /\ UNCHANGED <<fvars, tvars>>

\* Dropdown: onInput, then the render that computes the list
onInput(value) ==
  /\ ~crashed /\ isOpen
  /\ search' = toLocaleLowerCase(value)
  /\ crashed' = RenderThrows(component, search')
  /\ UNCHANGED <<component, options, externalSelected, selected, isOpen, reported, optionsContext>>
  /\ UNCHANGED <<fvars, tvars>>

\* Taxonomy: the trigger's onClick, setOpen(val => !val); Dropdown's effect on
\* show clears the search when the dropdown is shown
ToggleOpen ==
  /\ ~crashed
  /\ isOpen' = ~isOpen
  /\ search' = IF isOpen' THEN <<>> ELSE search
  /\ UNCHANGED <<component, options, externalSelected, selected, crashed, reported, optionsContext>>
  /\ UNCHANGED <<fvars, tvars>>

\* Taxonomy: close, from onClickOutside and onEsc
close ==
  /\ ~crashed /\ isOpen
  /\ isOpen' = FALSE
  /\ UNCHANGED <<component, options, externalSelected, selected, search, crashed, reported, optionsContext>>
  /\ UNCHANGED <<fvars, tvars>>

\* the caller renders Taxonomy with a new selected list; the effect on
\* externalSelected resynchronizes the internal list
ExternalChange(newSelected) ==
  /\ ~crashed
  /\ externalSelected' = newSelected
  /\ selected' = resynchronized(selected, newSelected)
  /\ optionsContext' = optionsWithMaxUsages(optionsContext, options, selected, selected')
  /\ UNCHANGED <<component, options, search, isOpen, crashed, reported>>
  /\ UNCHANGED <<fvars, tvars>>

Next ==
  \/ \E item \in RenderedItems(component, search) : ItemChange(item)
  \/ \E k \in 1..Len(selected) : SelectedListRemove(k)
  \/ \E value \in SearchInputs : onInput(value)
  \/ ToggleOpen
  \/ close
  \/ \E newSelected \in DupFreeLists(ItemPaths, MaxExternal) : ExternalChange(newSelected)

Spec == Init /\ [][Next]_vars

\* ------------------------------------------ filterTreeByPredicate: claims
\* a is the path of a proper ancestor of the node with path b
IsAncestorPath(a, b) == Len(a) < Len(b) /\ SubSeq(b, 1, Len(a)) = a

\* the nodes the contract keeps: the predicate holds, or it holds of a descendant
Kept == {n \in Range(flat) : n \in accepted \/ \E m \in accepted : IsAncestorPath(n.path, m.path)}
KeptPaths == {n.path : n \in Kept}

\* the source forest (the depth-0 items of the flat sequence with the children
\* they reference) restricted to the nodes whose path is in kp
RECURSIVE Restrict(_, _)
Restrict(forest, kp) ==
  IF forest = <<>> THEN <<>>
  ELSE LET n == Head(forest)
           rest == Restrict(Tail(forest), kp)
       IN  IF n.path \in kp
           THEN <<[n EXCEPT !.children = Restrict(n.children, kp)]>> \o rest
           ELSE rest

SourceRoots == SelectSeq(flat, LAMBDA n : n.depth = 0)

ResultPaths == {n.path : n \in Range(flatten(fst.result))}

\* C1: for every well-formed tree and predicate the call returns a forest in
\* which a node appears iff the predicate holds of it or of one of its
\* descendants (so A > [A1, A2 > [A2a]] filtered on A2a gives A > [A2 > [A2a]]).
C1_KeptIffMatchOrAncestor ==
  fst.pc # "loop" => (fst.pc = "done" /\ ResultPaths = KeptPaths)

\* C2: the call is total on well-formed input: it never raises, and at every
\* closing step that attaches a node of depth d >= 1 the list childs[d - 1] exists.
C2_TotalNoError ==
  /\ fst.pc # "error"
  /\ (fst.pc = "loop" /\ fst.i > 0 /\ flat[fst.i].depth = fst.d /\ fst.d >= 1)
       => (fst.d - 1) \in DOMAIN fst.childs

\* C3: the call returns the source forest restricted to the kept nodes: each
\* kept node once, under its source parent, siblings in source order.
C3_ResultIsRestriction ==
  fst.pc # "loop" => (fst.pc = "done" /\ fst.result = Restrict(SourceRoots, KeptPaths))

\* what does hold of the code: whenever the call returns, the forest is the
\* restriction of the source forest to the kept nodes
FilterPartialCorrectness ==
  fst.pc = "done" => fst.result = Restrict(SourceRoots, KeptPaths)

\* the call of the spec's scenario has ended
ExampleCallEnded ==
  /\ flat = flatten(ExampleTree)
  /\ accepted = {flat[4]}
  /\ fst.pc # "loop"

\* the index of the next element of depth fst.d the backward scan will reach
NextAtClosingDepth == {k \in 1..fst.i : flat[k].depth = fst.d /\ \A m \in (k + 1)..fst.i : flat[m].depth # fst.d}

\* C17: loop invariant of the scan: while the closing depth d is >= 0 the next
\* scanned element of depth d is the parent of every node waiting in childs[d]
\* and no element of depth < d is scanned before it; when the scan ends d is
\* -1 and every pending list is empty, every kept node being attached.
C17_ClosingDepthInvariant ==
  /\ (fst.pc = "loop" /\ fst.d >= 0) =>
       /\ NextAtClosingDepth # {}
       /\ \A j \in NextAtClosingDepth :
            /\ \A k \in (j + 1)..fst.i : flat[k].depth > fst.d
            /\ fst.d \in DOMAIN fst.childs
            /\ fst.childs[fst.d] # <<>>
            /\ \A n \in Range(fst.childs[fst.d]) :
                 n.depth = fst.d + 1 /\ n.path = Append(flat[j].path, n.label)
  /\ fst.pc = "done" =>
       /\ fst.d = -1
       /\ \A k \in DOMAIN fst.childs : fst.childs[k] = <<>>
       /\ ResultPaths = KeptPaths

\* a scan that ended after closing two levels with a pending list at each
C17_Witness ==
  /\ fst.pc = "done"
  /\ DOMAIN fst.childs = {0, 1}
  /\ Len(fst.result) = 1
  /\ Len(fst.result[1].children) = 2
  /\ Len(fst.result[1].children[1].children) = 1

\* ------------------------------------------------------- flatten: claims
RECURSIVE Size(_)
Size(forest) == IF forest = <<>> THEN 0 ELSE 1 + Size(Head(forest).children) + Size(Tail(forest))

\* the nodes of forest, nested level levels deep, lie in fl from index start
\* on in pre-order: a node, then its subtree, then its next sibling; each
\* entry is the node itself with the depth of its level
RECURSIVE IsPreOrderFrom(_, _, _, _)
IsPreOrderFrom(forest, fl, start, level) ==
  \/ forest = <<>>
  \/ /\ start <= Len(fl)
     /\ fl[start] = Head(forest)
     /\ fl[start].depth = level
     /\ IsPreOrderFrom(Head(forest).children, fl, start + 1, level + 1)
     /\ IsPreOrderFrom(Tail(forest), fl, start + 1 + Size(Head(forest).children), level)

\* C13: the flat sequence has exactly one entry per node of the tree, in
\* depth-first pre-order, and every entry keeps its depth in the source tree.
C13_FlattenIsPreOrder ==
  /\ Len(flat) = Size(items)
  /\ IsPreOrderFrom(items, flat, 1, 0)
  /\ \A i, j \in DOMAIN flat : i # j => flat[i].path # flat[j].path

\* a supplied tree with a subtree before a sibling: A > [B > [C], D]
C13_Witness ==
  /\ Len(items) = 1 /\ Len(flat) = 4
  /\ Len(items[1].children) = 2
  /\ Len(items[1].children[1].children) = 1
  /\ flat[3] = items[1].children[1].children[1]
  /\ flat[4] = items[1].children[2]

\* --------------------------------------------------- selection: claims
Count(l, q) == Cardinality({k \in DOMAIN l : l[k] = q})
Precedes(l, q1, q2) == \E i, j \in DOMAIN l : i < j /\ l[i] = q1 /\ l[j] = q2
LastCall == thist[Len(thist)]
PA == <<LA>>
PA1 == <<LA, LA1>>
PA2 == <<LA, LA2>>
PA2a == <<LA, LA2, LA2a>>

\* C6: toggle-on is idempotent: a second setSelected(p, true) leaves the list
\* with the same entries as the first; no second entry equal to p is created.
C6_ToggleOnIdempotent ==
  (/\ Len(thist) >= 2
   /\ LastCall.value /\ thist[Len(thist) - 1].value
   /\ LastCall.path = thist[Len(thist) - 1].path)
    => \A q \in TogglePaths : Count(tset, q) = Count(LastCall.before, q)

\* C8: a node is shown indeterminate iff its path is not in the selected list
\* and some selected path is a strict descendant of it; checked and
\* indeterminate are never both true.
C8_IndeterminateIffUncheckedAncestor ==
  \A p \in TogglePaths :
    /\ indeterminate(tset, p) <=>
         (p \notin Range(tset) /\ \E k \in DOMAIN tset : IsAncestorPath(p, tset[k]))
    /\ ~(checked(tset, p) /\ indeterminate(tset, p))

\* the spec's scenario, with a selected ancestor next to it
C8_Witness ==
  /\ thist # <<>>
  /\ PA2a \in Range(tset) /\ PA \in Range(tset) /\ PA2 \notin Range(tset)
  /\ indeterminate(tset, PA2) /\ ~checked(tset, PA2)
  /\ checked(tset, PA2a) /\ ~indeterminate(tset, PA2a)
  /\ checked(tset, PA) /\ ~indeterminate(tset, PA)

\* C9: selection does not cascade: a toggle of p changes the membership of p
\* only; every other path, ancestors and descendants of p included, is in the
\* new list iff it was in the old one, and the other entries keep their order.
C9_ToggleChangesOnlyItsPath ==
  thist # <<>> =>
    LET p == LastCall.path
        old == LastCall.before
    IN  /\ (p \in Range(tset)) <=> LastCall.value
        /\ \A q \in TogglePaths \ {p} : Count(tset, q) = Count(old, q)
        /\ \A q1, q2 \in TogglePaths \ {p} : Precedes(tset, q1, q2) <=> Precedes(old, q1, q2)

\* A2 toggled off while its parent A and its child A2a stay selected
C9_Witness ==
  /\ thist # <<>>
  /\ LastCall.path = PA2 /\ ~LastCall.value /\ PA2 \in Range(LastCall.before)
  /\ PA \in Range(tset) /\ PA2a \in Range(tset)

\* C11: every call of setSelected invokes onChange exactly once, with exactly
\* the list the internal selected state is set to by that call.
C11_EveryToggleReportsItsList ==
  /\ Len(tcalls) = Len(thist)
  /\ \A k \in DOMAIN thist :
       tcalls[k] = (IF k = Len(thist) THEN tset ELSE thist[k + 1].before)

\* two calls made, the second removing an entry: two reports, the last one shorter
C11_Witness ==
  /\ Len(thist) = 2 /\ Len(tcalls) = 2
  /\ ~LastCall.value /\ Len(tset) < Len(LastCall.before)
  /\ tcalls[2] = tset /\ tcalls[1] # tset

\* C14: toggle-off undoes toggle-on: after setSelected(p, true) and then
\* setSelected(p, false) the list holds exactly the paths of the first list
\* other than p, whether or not p was in it; no entry equal to p is left.
C14_ToggleOffUndoesToggleOn ==
  (/\ Len(thist) >= 2
   /\ ~LastCall.value /\ thist[Len(thist) - 1].value
   /\ LastCall.path = thist[Len(thist) - 1].path)
    => LET p == LastCall.path
           set == thist[Len(thist) - 1].before
       IN  /\ Range(tset) = Range(set) \ {p}
           /\ Count(tset, p) = 0
           /\ \A q \in TogglePaths \ {p} : Count(tset, q) = Count(set, q)

\* p was in the list before it was toggled on and then off
C14_Witness ==
  /\ Len(thist) >= 2
  /\ ~LastCall.value /\ thist[Len(thist) - 1].value
  /\ LastCall.path = thist[Len(thist) - 1].path
  /\ LastCall.path \in Range(thist[Len(thist) - 1].before)
  /\ Count(LastCall.before, LastCall.path) = 2
  /\ tset # <<>>

\* C16: no toggle is lost: after calls for pairwise different paths, also
\* calls made before the component re-rendered, every call decides whether
\* its path is in the selected list, and the last list reported is that list.
C16_NoToggleLost ==
  (\A k, m \in DOMAIN thist : k # m => thist[k].path # thist[m].path) =>
    /\ \A k \in DOMAIN thist : checked(tset, thist[k].path) <=> thist[k].value
    /\ tcalls # <<>> => tcalls[Len(tcalls)] = tset

\* ---------------------------------------------------- component: claims
IsLeafPath(p) == \E n \in Range(flatten(Items)) : n.path = p /\ n.children = <<>>

\* C4: with leafsOnly no user toggle ever adds the path of a node that has
\* children: a selected path of a non-leaf can only come from the caller's list.
C4_LeafsOnlySelectsLeaves ==
  options.leafsOnly =>
    \A p \in Range(selected) : IsLeafPath(p) \/ p \in Range(externalSelected)

\* C5: with maxUsages = N > 0 and lists of at most N paths from the caller,
\* no sequence of user toggles makes the selected list hold more than N paths.
C5_MaxUsagesCap ==
  (options.maxUsages > 0 /\ Len(externalSelected) <= options.maxUsages) =>
    Len(selected) <= options.maxUsages

\* what does hold: the Item of Taxonomy.tsx enforces the cap; at the cap it
\* disables every unselected node and leaves every selected one enabled
MaxUsagesCapInTaxonomyTsx ==
  (component = "Taxonomy.tsx" /\ options.maxUsages > 0
     /\ Len(externalSelected) <= options.maxUsages) =>
    /\ Len(selected) <= options.maxUsages
    /\ Len(selected) >= options.maxUsages =>
         \A item \in RenderedItems(component, search) :
           /\ ~checked(selected, item.path) => disabled(component, item, selected, options)
           /\ (checked(selected, item.path) /\ ~options.leafsOnly)
                => ~disabled(component, item, selected, options)

\* C4 restricted to Taxonomy.tsx (it fails there too, through the filtered view,
\* where filterTreeByPredicate gives a matched parent an empty children list)
LeafsOnlyInTaxonomyTsx == component = "Taxonomy.tsx" => C4_LeafsOnlySelectsLeaves

\* C7: from duplicate-free external lists, after any toggles, removals and
\* resynchronizations the internal selected list holds no two equal paths.
C7_NoDuplicateSelected ==
  \A i, j \in DOMAIN selected : i # j => selected[i] # selected[j]

\* a list of two or more paths built by toggles, differing from the caller's
C7_Witness ==
  /\ reported = <<selected>>
  /\ Len(selected) >= 2
  /\ selected # externalSelected

\* C10: when the caller supplies a new external list the internal list is
\* replaced by it: after the step internal = external, local toggles are gone.
C10_ResyncReplacesInternal ==
  [][externalSelected' # externalSelected => selected' = externalSelected']_vars

\* the internal list equals the caller's and the last toggle's result is gone
C10_Witness ==
  /\ reported # <<>>
  /\ selected = externalSelected
  /\ \E p \in Range(reported[1]) : p \notin Range(selected)

\* C12: in every state the maxUsagesReached flag handed to the nodes equals
\* (maxUsages is set and non-zero and selected.length >= maxUsages), computed
\* from the current internal list; it is false when maxUsages is absent or 0.
C12_MaxUsagesReachedIsCurrent ==
  /\ optionsContext.maxUsagesReached
       <=> (options.maxUsages > 0 /\ Len(selected) >= options.maxUsages)
  /\ options.maxUsages = 0 => ~optionsContext.maxUsagesReached

\* maxUsages = 2: the caller's list had size 2 (flag true) and removals shrank
\* the internal list to size 1, where the flag is false again
C12_Witness ==
  /\ options.maxUsages = 2
  /\ Len(externalSelected) = 2
  /\ reported = <<selected>>
  /\ Len(selected) = 1 /\ selected[1] \in Range(externalSelected)
  /\ ~optionsContext.maxUsagesReached

====
